---- MODULE Spec2Model ----
(***************************************************************************)
(* Workflow state machine and session model of the Content Studio agent    *)
(* (memory/state.py) together with the capability calls of                 *)
(* tools/image_gen.py and tools/content.py that a turn makes.              *)
(***************************************************************************)
EXTENDS Integers, Sequences, FiniteSets, TLC

(***************************************************************************)
(* Bounds of the model                                                     *)
(***************************************************************************)
\* largest clock reading (half-second ticks) a run observes
MaxClock == 1
\* largest number of PostContext fields that differ from their default
MaxPostFields == 1
\* largest number of entries of BrandContext.user_images
MaxImages == 2

None == "None"

Range(f) == {f[i] : i \in DOMAIN f}

(***************************************************************************)
(* class WorkflowState(Enum): member name |-> value                        *)
(***************************************************************************)
WorkflowStateValue ==
    [START |-> "start",
     BRAND_SETUP |-> "brand_setup",
     BRAND_COMPLETE |-> "brand_complete",
     MODE_SELECTION |-> "mode_selection",
     GENERAL_IMAGE_PROMPT |-> "general_image_prompt",
     GENERAL_IMAGE_GENERATING |-> "general_image_gen",
     POST_IDEA_SOURCE |-> "post_idea_source",
     IDEA_REQUEST |-> "idea_request",
     IDEAS_SHOWN |-> "ideas_shown",
     IDEA_SELECTED |-> "idea_selected",
     POST_BRIEF_GENERATION |-> "post_brief_gen",
     BRIEF_SHOWN |-> "brief_shown",
     BRIEF_APPROVED |-> "brief_approved",
     POST_GENERATING |-> "post_generating",
     IMAGE_GENERATED |-> "image_generated",
     POST_EDIT_REQUESTED |-> "post_edit_req",
     POST_EDITING |-> "post_editing",
     ANIMATION_CHOICE |-> "animation_choice",
     ANIMATION_GENERATED |-> "animation_generated",
     CAPTION_REQUEST |-> "caption_request",
     CAPTION_GENERATED |-> "caption_generated",
     CAMPAIGN_SETUP |-> "campaign_setup",
     CAMPAIGN_DETAILS_SET |-> "campaign_details_set",
     CAMPAIGN_IDEA_SOURCE |-> "campaign_idea_src",
     CAMPAIGN_IDEAS_GENERATED |-> "campaign_ideas",
     WEEK_PLANNING |-> "week_planning",
     WEEK_PRESENTED |-> "week_presented",
     WEEK_APPROVED |-> "week_approved",
     WEEK_GENERATING |-> "week_generating",
     WEEK_COMPLETE |-> "week_complete",
     CAMPAIGN_NEXT_WEEK |-> "campaign_next_week",
     CAMPAIGN_COMPLETE |-> "campaign_complete",
     CAROUSEL_SETUP |-> "carousel_setup",
     CAROUSEL_GENERATING |-> "carousel_gen",
     CAROUSEL_COMPLETE |-> "carousel_complete",
     COMPLETE |-> "complete",
     ERROR |-> "error"]

WorkflowState == DOMAIN WorkflowStateValue

(***************************************************************************)
(* StateTransitions.VALID_TRANSITIONS: state |-> list of declared          *)
(* successors, in the order of the source                                  *)
(***************************************************************************)
VALID_TRANSITIONS ==
    [START |-> <<"BRAND_SETUP">>,
     BRAND_SETUP |-> <<"BRAND_COMPLETE", "MODE_SELECTION">>,
     BRAND_COMPLETE |-> <<"MODE_SELECTION">>,
     MODE_SELECTION |-> <<"POST_IDEA_SOURCE", "GENERAL_IMAGE_PROMPT",
                          "CAMPAIGN_SETUP", "CAROUSEL_SETUP", "IDEA_REQUEST">>,
     GENERAL_IMAGE_PROMPT |-> <<"GENERAL_IMAGE_GENERATING">>,
     GENERAL_IMAGE_GENERATING |-> <<"IMAGE_GENERATED">>,
     POST_IDEA_SOURCE |-> <<"IDEA_REQUEST", "POST_BRIEF_GENERATION">>,
     IDEA_REQUEST |-> <<"IDEAS_SHOWN">>,
     IDEAS_SHOWN |-> <<"IDEA_SELECTED", "IDEA_REQUEST">>,
     IDEA_SELECTED |-> <<"POST_BRIEF_GENERATION", "BRIEF_SHOWN">>,
     POST_BRIEF_GENERATION |-> <<"BRIEF_SHOWN">>,
     BRIEF_SHOWN |-> <<"BRIEF_APPROVED", "IDEA_SELECTED">>,
     BRIEF_APPROVED |-> <<"POST_GENERATING", "IMAGE_GENERATED">>,
     POST_GENERATING |-> <<"IMAGE_GENERATED">>,
     IMAGE_GENERATED |-> <<"POST_EDIT_REQUESTED", "ANIMATION_CHOICE",
                           "CAPTION_REQUEST", "COMPLETE", "MODE_SELECTION">>,
     POST_EDIT_REQUESTED |-> <<"POST_EDITING">>,
     POST_EDITING |-> <<"IMAGE_GENERATED">>,
     ANIMATION_CHOICE |-> <<"ANIMATION_GENERATED", "CAPTION_REQUEST">>,
     ANIMATION_GENERATED |-> <<"CAPTION_REQUEST">>,
     CAPTION_REQUEST |-> <<"CAPTION_GENERATED">>,
     CAPTION_GENERATED |-> <<"COMPLETE", "MODE_SELECTION">>,
     CAMPAIGN_SETUP |-> <<"CAMPAIGN_DETAILS_SET">>,
     CAMPAIGN_DETAILS_SET |-> <<"CAMPAIGN_IDEA_SOURCE", "WEEK_PLANNING">>,
     CAMPAIGN_IDEA_SOURCE |-> <<"CAMPAIGN_IDEAS_GENERATED", "WEEK_PLANNING">>,
     CAMPAIGN_IDEAS_GENERATED |-> <<"WEEK_PLANNING">>,
     WEEK_PLANNING |-> <<"WEEK_PRESENTED", "WEEK_APPROVED">>,
     WEEK_PRESENTED |-> <<"WEEK_APPROVED", "WEEK_PLANNING">>,
     WEEK_APPROVED |-> <<"WEEK_GENERATING", "POST_GENERATING">>,
     WEEK_GENERATING |-> <<"WEEK_COMPLETE">>,
     WEEK_COMPLETE |-> <<"CAMPAIGN_NEXT_WEEK", "CAMPAIGN_COMPLETE",
                         "WEEK_PLANNING", "COMPLETE">>,
     CAMPAIGN_NEXT_WEEK |-> <<"WEEK_PLANNING">>,
     CAMPAIGN_COMPLETE |-> <<"COMPLETE", "MODE_SELECTION">>,
     CAROUSEL_SETUP |-> <<"CAROUSEL_GENERATING">>,
     CAROUSEL_GENERATING |-> <<"CAROUSEL_COMPLETE">>,
     CAROUSEL_COMPLETE |-> <<"COMPLETE", "MODE_SELECTION">>,
     COMPLETE |-> <<"MODE_SELECTION">>,
     ERROR |-> <<"MODE_SELECTION", "START">>]

\* variant: the table is looked up by the enum member's value
get_valid_next_states_by_value(current_state) ==
    IF WorkflowStateValue[current_state] \in DOMAIN VALID_TRANSITIONS
        THEN VALID_TRANSITIONS[WorkflowStateValue[current_state]]
        ELSE << >>

\* StateTransitions.get_valid_next_states: VALID_TRANSITIONS.get(state, [])
get_valid_next_states(current_state) ==
    IF current_state \in DOMAIN VALID_TRANSITIONS
        THEN VALID_TRANSITIONS[current_state]
        ELSE << >>

\* variant: ERROR may be entered from every state
is_valid_transition_or_error(from_state, to_state) ==
    \/ to_state = "ERROR"
    \/ to_state \in Range(IF from_state \in DOMAIN VALID_TRANSITIONS
                              THEN VALID_TRANSITIONS[from_state]
                              ELSE << >>)

\* variant: to_state is looked for among the keys of the table
is_valid_transition_key(from_state, to_state) ==
    to_state \in DOMAIN VALID_TRANSITIONS

\* StateTransitions.is_valid_transition: to_state in valid_next
is_valid_transition(from_state, to_state) ==
    LET valid_next == IF from_state \in DOMAIN VALID_TRANSITIONS
                          THEN VALID_TRANSITIONS[from_state]
                          ELSE << >>
    IN  to_state \in Range(valid_next)

(***************************************************************************)
(* Context entities: dataclass defaults                                    *)
(***************************************************************************)
\* BrandContext()
BrandContext ==
    [name |-> "", industry |-> "", overview |-> "", tone |-> "creative",
     logo_path |-> None, colors |-> << >>, reference_images |-> << >>,
     user_images |-> << >>]

\* BrandContext.is_complete: bool(self.name)
is_complete(brand) == brand.name # ""

\* PostContext()
PostContext ==
    [theme |-> None, selected_idea |-> None, visual_brief |-> None,
     image_path |-> None, animation_style |-> None, video_path |-> None,
     caption |-> None, hashtags |-> << >>]

\* variant: the reset leaves the hashtags of the last post
PostReset_keeping_hashtags(post) ==
    [post EXCEPT !.theme = None, !.selected_idea = None,
                 !.visual_brief = None, !.image_path = None,
                 !.animation_style = None, !.video_path = None,
                 !.caption = None]

\* PostContext.reset
PostReset(post) ==
    [post EXCEPT !.theme = None, !.selected_idea = None,
                 !.visual_brief = None, !.image_path = None,
                 !.animation_style = None, !.video_path = None,
                 !.caption = None, !.hashtags = << >>]

\* CampaignContext()
CampaignContext ==
    [month |-> None, posts_per_week |-> 2, total_weeks |-> 4,
     current_week |-> 1, completed_weeks |-> << >>,
     posts_generated |-> << >>]

\* CampaignContext.reset
CampaignReset(campaign) ==
    [campaign EXCEPT !.month = None, !.posts_per_week = 2,
                     !.total_weeks = 4, !.current_week = 1,
                     !.completed_weeks = << >>, !.posts_generated = << >>]

\* SessionState(session_id, user_id) constructed when the clock reads t
SessionState(session_id, user_id, t) ==
    [session_id |-> session_id, user_id |-> user_id,
     workflow_state |-> "START", mode |-> None,
     brand |-> BrandContext, post |-> PostContext,
     campaign |-> CampaignContext,
     created_at |-> t, updated_at |-> t]

\* variant: a new_state that the table does not declare is ignored
transition_validated(s, new_state, t) ==
    IF is_valid_transition(s.workflow_state, new_state)
        THEN [s EXCEPT !.workflow_state = new_state, !.updated_at = t]
        ELSE s

\* SessionState.transition: sets workflow_state, stamps updated_at with the
\* clock reading t
transition(s, new_state, t) ==
    [s EXCEPT !.workflow_state = new_state, !.updated_at = t]

(***************************************************************************)
(* Serialization (to_dict / from_dict).  A dataclass instance is a record; *)
(* a Python dict is Dict(r) for a record r of its keys; an entry of        *)
(* BrandContext.user_images is either a UserUploadedImage instance or a    *)
(* dict.  A string is a TLA+ string, an ISO-8601 string a sequence.        *)
(***************************************************************************)
Dict(r) == [py |-> "dict", f |-> r]
PyNone == [py |-> "NoneType"]
Tuple(items) == [py |-> "tuple", items |-> items]
List(items) == [py |-> "list", items |-> items]

\* dict.get(key, default)
Get(data, key, default) ==
    IF key \in DOMAIN data.f THEN data.f[key] ELSE default

\* the dict without one key / with one more key
Without(data, key) == Dict([k \in DOMAIN data.f \ {key} |-> data.f[k]])
With(data, key, value) ==
    Dict([k \in DOMAIN data.f \cup {key} |->
             IF k = key THEN value ELSE data.f[k]])

\* UserUploadedImage(...)
UserUploadedImage(id, filename, path, url, uploaded_at, usage_intent, extracted_colors, dimensions) ==
    [py |-> "UserUploadedImage",
     f |-> [id |-> id, filename |-> filename, path |-> path, url |-> url,
            uploaded_at |-> uploaded_at, usage_intent |-> usage_intent,
            extracted_colors |-> extracted_colors,
            dimensions |-> dimensions]]

\* USER_IMAGE_INTENTS
USER_IMAGE_INTENTS ==
    <<"background", "product_focus", "team_people", "style_reference",
      "logo_badge", "auto">>

\* UserUploadedImage.to_dict
UserUploadedImage_to_dict(img) ==
    Dict([id |-> img.f.id, filename |-> img.f.filename, path |-> img.f.path,
          url |-> img.f.url, uploaded_at |-> img.f.uploaded_at,
          usage_intent |-> img.f.usage_intent,
          extracted_colors |-> img.f.extracted_colors,
          dimensions |-> img.f.dimensions])

\* UserUploadedImage.from_dict
UserUploadedImage_from_dict(data) ==
    UserUploadedImage(Get(data, "id", ""), Get(data, "filename", ""),
                      Get(data, "path", ""), Get(data, "url", ""),
                      Get(data, "uploaded_at", ""),
                      Get(data, "usage_intent", "auto"),
                      Get(data, "extracted_colors", << >>),
                      Tuple(Get(data, "dimensions", Tuple(<< >>)).items))

\* BrandContext.to_dict
BrandContext_to_dict(brand) ==
    Dict([name |-> brand.name, industry |-> brand.industry,
          overview |-> brand.overview, tone |-> brand.tone,
          logo_path |-> brand.logo_path, colors |-> brand.colors,
          reference_images |-> brand.reference_images,
          user_images |->
              [i \in DOMAIN brand.user_images |->
                  IF brand.user_images[i].py = "UserUploadedImage"
                      THEN UserUploadedImage_to_dict(brand.user_images[i])
                      ELSE brand.user_images[i]]])

\* BrandContext.from_dict
BrandContext_from_dict(data) ==
    LET user_images_data == Get(data, "user_images", << >>)
    IN  [name |-> Get(data, "name", ""),
         industry |-> Get(data, "industry", ""),
         overview |-> Get(data, "overview", ""),
         tone |-> Get(data, "tone", "creative"),
         logo_path |-> Get(data, "logo_path", None),
         colors |-> Get(data, "colors", << >>),
         reference_images |-> Get(data, "reference_images", << >>),
         user_images |->
             [i \in DOMAIN user_images_data |->
                 IF user_images_data[i].py = "dict"
                     THEN UserUploadedImage_from_dict(user_images_data[i])
                     ELSE user_images_data[i]]]

\* PostContext.to_dict
PostContext_to_dict(post) ==
    Dict([theme |-> post.theme, selected_idea |-> post.selected_idea,
          visual_brief |-> post.visual_brief, image_path |-> post.image_path,
          animation_style |-> post.animation_style,
          video_path |-> post.video_path, caption |-> post.caption,
          hashtags |-> post.hashtags])

\* PostContext.from_dict: cls(**data), the keys given, defaults for the rest
PostContext_from_dict(data) ==
    [k \in DOMAIN PostContext |-> Get(data, k, PostContext[k])]

\* CampaignContext.to_dict
CampaignContext_to_dict(campaign) ==
    Dict([month |-> campaign.month,
          posts_per_week |-> campaign.posts_per_week,
          total_weeks |-> campaign.total_weeks,
          current_week |-> campaign.current_week,
          completed_weeks |-> campaign.completed_weeks,
          posts_generated |-> campaign.posts_generated])

\* CampaignContext.from_dict: cls(**data)
CampaignContext_from_dict(data) ==
    [k \in DOMAIN CampaignContext |-> Get(data, k, CampaignContext[k])]

\* datetime.isoformat: the fraction is written only when it is not zero
\* (a clock tick is half a second)
isoformat(t) ==
    IF t % 2 = 0 THEN <<t \div 2>> ELSE <<t \div 2, 500000>>

\* datetime.fromisoformat of a well-formed string
fromisoformat(str) ==
    2 * str[1] + (IF Len(str) = 2 THEN str[2] \div 500000 ELSE 0)

\* WorkflowState(value): the member with that value
WorkflowStateOf(value) ==
    CHOOSE m \in WorkflowState : WorkflowStateValue[m] = value

\* SessionState.to_dict
SessionState_to_dict(s) ==
    Dict([session_id |-> s.session_id, user_id |-> s.user_id,
          workflow_state |-> WorkflowStateValue[s.workflow_state],
          mode |-> s.mode,
          brand |-> BrandContext_to_dict(s.brand),
          post |-> PostContext_to_dict(s.post),
          campaign |-> CampaignContext_to_dict(s.campaign),
          created_at |-> isoformat(s.created_at),
          updated_at |-> isoformat(s.updated_at)])

\* the exception SessionState.from_dict raises on data, "none" when it
\* returns; the arguments of cls(...) are evaluated in order
SessionState_from_dict_raises(data) ==
    LET brand == Get(data, "brand", Dict(<< >>))
        post == Get(data, "post", Dict(<< >>))
        campaign == Get(data, "campaign", Dict(<< >>))
    IN  IF "session_id" \notin DOMAIN data.f THEN "KeyError"
        ELSE IF "user_id" \notin DOMAIN data.f THEN "KeyError"
        ELSE IF "workflow_state" \notin DOMAIN data.f THEN "KeyError"
        ELSE IF data.f.workflow_state \notin Range(WorkflowStateValue)
            THEN "ValueError"
        ELSE IF brand.py # "dict" THEN "AttributeError"
        ELSE IF post.py # "dict" THEN "TypeError"
        ELSE IF ~(DOMAIN post.f \subseteq DOMAIN PostContext) THEN "TypeError"
        ELSE IF campaign.py # "dict" THEN "TypeError"
        ELSE IF ~(DOMAIN campaign.f \subseteq DOMAIN CampaignContext)
            THEN "TypeError"
        ELSE IF "created_at" \notin DOMAIN data.f THEN "KeyError"
        ELSE IF Len(data.f.created_at) = 0 THEN "ValueError"
        ELSE IF "updated_at" \notin DOMAIN data.f THEN "KeyError"
        ELSE IF Len(data.f.updated_at) = 0 THEN "ValueError"
        ELSE "none"

\* SessionState.from_dict: [raised |-> exception] or the session it returns
SessionState_from_dict(data) ==
    IF SessionState_from_dict_raises(data) # "none"
        THEN [raised |-> SessionState_from_dict_raises(data)]
        ELSE [raised |-> "none",
              value |->
                [session_id |-> data.f.session_id,
                 user_id |-> data.f.user_id,
                 workflow_state |-> WorkflowStateOf(data.f.workflow_state),
                 mode |-> Get(data, "mode", None),
                 brand |-> BrandContext_from_dict(
                               Get(data, "brand", Dict(<< >>))),
                 post |-> PostContext_from_dict(
                              Get(data, "post", Dict(<< >>))),
                 campaign |-> CampaignContext_from_dict(
                                  Get(data, "campaign", Dict(<< >>))),
                 created_at |-> fromisoformat(data.f.created_at),
                 updated_at |-> fromisoformat(data.f.updated_at)]]

(***************************************************************************)
(* Image filters of BrandContext                                           *)
(***************************************************************************)
\* BrandContext.get_images_for_generation
get_images_for_generation(brand) ==
    LET Keep(img) == /\ img.py = "UserUploadedImage"
                     /\ img.f.usage_intent # "style_reference"
    IN  SelectSeq(brand.user_images, Keep)

\* BrandContext.get_style_reference_images
get_style_reference_images(brand) ==
    LET Keep(img) == /\ img.py = "UserUploadedImage"
                     /\ img.f.usage_intent = "style_reference"
    IN  SelectSeq(brand.user_images, Keep)
            \o [i \in DOMAIN brand.reference_images |->
                   Dict([path |-> brand.reference_images[i]])]

\* BrandContext.get_user_images_by_intent
get_user_images_by_intent(brand, intent) ==
    LET Keep(img) == /\ img.py = "UserUploadedImage"
                     /\ img.f.usage_intent = intent
    IN  SelectSeq(brand.user_images, Keep)

(***************************************************************************)
(* Capability calls (tools/image_gen.py, tools/content.py).  A tool is a   *)
(* blocking function from its arguments and the remote service's behaviour *)
(* to a result dict; only the "status" of the dict is modelled.            *)
(***************************************************************************)
\* animate_image: max_wait_time = 300
max_wait_time == 300
\* animate_image: poll_interval = 10
poll_interval == 10

\* polls after which the remote operation never reports done
NeverDone == (max_wait_time \div poll_interval) + 1

\* _format_error: every exception becomes a dict with status "error"
_format_error == "error"

\* animate_image, step 4: while not operation.done: sleep, get, decrement,
\* return timeout once the budget is used up.  done_at is the number of polls
\* after which the remote operation reports done.
RECURSIVE PollLoop(_, _, _)
PollLoop(wait, polls, done_at) ==
    IF polls >= done_at
        THEN [out |-> "done", polls |-> polls]
        ELSE IF wait - poll_interval <= 0
                 THEN [out |-> "timeout", polls |-> polls + 1]
                 ELSE PollLoop(wait - poll_interval, polls + 1, done_at)

\* animate_image: status of the returned dict
\*   api_key      GOOGLE_API_KEY is configured (_get_client)
\*   image_exists os.path.exists(resolved_path)
\*   raised       exception raised by the model call: "none", "unavailable"
\*                (not found / invalid / unavailable / ...), "other"
\*   done_at      polls until operation.done
\*   result       operation.result: "none", "empty" (no videos), "video"
animate_image(api_key, image_exists, raised, done_at, result) ==
    IF ~api_key THEN _format_error
    ELSE IF ~image_exists THEN "error"
    ELSE IF raised = "unavailable" THEN "model_unavailable"
    ELSE IF raised = "other" THEN _format_error
    ELSE IF PollLoop(max_wait_time, 0, done_at).out = "timeout" THEN "timeout"
    ELSE IF result = "none" THEN "error"
    ELSE IF result = "empty" THEN "error"
    ELSE "success"

\* generate_post_image: status of the returned dict
\*   raised    the request still fails after _retry_with_backoff
\*   has_image a part of the response carries inline image data
generate_post_image(api_key, raised, has_image) ==
    IF ~api_key THEN _format_error
    ELSE IF raised THEN _format_error
    ELSE IF has_image THEN "success"
    ELSE "error"

\* write_caption: status of the returned dict
write_caption(api_key, raised) ==
    IF ~api_key THEN "error"
    ELSE IF raised THEN "error"
    ELSE "success"

\* polls until done that the model tries: at once, after one poll, around the
\* end of the budget, never
DoneAtValues == {0, 1, NeverDone - 2, NeverDone - 1, NeverDone}

\* the statuses the tools can return, over all inputs
AnimateImageStatuses ==
    {animate_image(api_key, image_exists, raised, done_at, result) :
        api_key \in BOOLEAN, image_exists \in BOOLEAN,
        raised \in {"none", "unavailable", "other"},
        done_at \in DoneAtValues, result \in {"none", "empty", "video"}}

GeneratePostImageStatuses ==
    {generate_post_image(api_key, raised, has_image) :
        api_key \in BOOLEAN, raised \in BOOLEAN, has_image \in BOOLEAN}

WriteCaptionStatuses ==
    {write_caption(api_key, raised) : api_key \in BOOLEAN, raised \in BOOLEAN}

NonSuccess == {"error", "timeout", "model_unavailable"}

(***************************************************************************)
(* Paths of the transition table                                           *)
(***************************************************************************)
\* the states that sequences of declared transitions lead to from a set
RECURSIVE Closure(_)
Closure(states) ==
    LET next == states \cup
                UNION {Range(get_valid_next_states(s)) : s \in states}
    IN  IF next = states THEN states ELSE Closure(next)

ReachableFrom == [s \in WorkflowState |-> Closure({s})]

(***************************************************************************)
(* MemoryStore (store.py)                                                  *)
(***************************************************************************)
MaxLog == 2

\* MemoryStore.__init__: projects is a dict, kept here in insertion order
\* and so is profiles; session_context is a function on its keys
MemoryStore ==
    [projects |-> << >>, profiles |-> << >>, generated_content |-> << >>,
     session_context |-> << >>]

HasProject(self, project_id) ==
    \E i \in DOMAIN self.projects : self.projects[i].id = project_id

ProjectIndex(self, project_id) ==
    CHOOSE i \in DOMAIN self.projects : self.projects[i].id = project_id

\* self.projects[project_id] = {...}; t1 and t2 are the two clock readings
save_project(self, project_id, name, brand_info, t1, t2) ==
    LET project == [id |-> project_id, name |-> name,
                    brand_info |-> brand_info,
                    created_at |-> isoformat(t1),
                    updated_at |-> isoformat(t2),
                    content_history |-> << >>]
    IN  [self |-> [self EXCEPT !.projects =
                      IF HasProject(self, project_id)
                          THEN [@ EXCEPT ![ProjectIndex(self, project_id)] =
                                             project]
                          ELSE Append(@, project)],
         result |-> [status |-> "success", project_id |-> project_id]]

\* Python truth value of a project id: None and "" are false
Truthy(x) == x \notin {None, ""}

save_generated_content(self, content_type, content, project_id, t1, t2) ==
    LET entry == [type |-> content_type, content |-> content,
                  project_id |-> project_id, created_at |-> isoformat(t1)]
        logged == [self EXCEPT !.generated_content = Append(@, entry)]
        saved ==
            IF Truthy(project_id) /\ HasProject(logged, project_id)
                THEN [logged EXCEPT
                        !.projects[ProjectIndex(logged, project_id)] =
                            [@ EXCEPT !.content_history = Append(@, entry),
                                      !.updated_at = isoformat(t2)]]
                ELSE logged
    IN  [self |-> saved,
         result |-> [status |-> "success",
                     content_id |-> Len(saved.generated_content) - 1]]

\* list[start:] of Python
SliceFrom(list, start) ==
    LET n == Len(list)
        from == IF start < 0
                    THEN (IF n + start < 0 THEN 0 ELSE n + start)
                    ELSE (IF start > n THEN n ELSE start)
    IN  SubSeq(list, from + 1, n)

\* list[::-1] of Python
Reversed(list) == [i \in 1..Len(list) |-> list[Len(list) + 1 - i]]

\* self.generated_content[-limit:][::-1]
get_recent_content(self, limit) ==
    Reversed(SliceFrom(self.generated_content, 0 - limit))

\* self.profiles[username] = {...}
save_profile(self, username, profile_data, t1) ==
    LET profile == [username |-> username, data |-> profile_data,
                    analyzed_at |-> isoformat(t1)]
        held == {i \in DOMAIN self.profiles :
                    self.profiles[i].username = username}
    IN  [self |-> [self EXCEPT !.profiles =
                      IF held # {}
                          THEN [@ EXCEPT ![CHOOSE i \in held : TRUE] = profile]
                          ELSE Append(@, profile)],
         result |-> [status |-> "success", username |-> username]]

\* self.session_context[key] = value
set_context(self, key, value) ==
    [self EXCEPT !.session_context = (key :> value) @@ @]

\* sep.join(parts)
RECURSIVE join(_, _)
join(sep, parts) ==
    IF Len(parts) = 0 THEN ""
    ELSE IF Len(parts) = 1 THEN parts[1]
    ELSE parts[1] \o sep \o join(sep, Tail(parts))

\* MemoryStore.get_context_summary: the subscripts ['name'] and ['type']
\* raise KeyError on a record without that key
get_context_summary(self) ==
    LET projects == self.projects
        content == self.generated_content
        context == self.session_context
        project_parts ==
            IF Len(projects) > 0
                THEN <<"Active projects: " \o ToString(Len(projects)),
                       "Last project: " \o projects[Len(projects)].name>>
                ELSE << >>
        profile_parts ==
            IF Len(self.profiles) > 0
                THEN <<"Analyzed profiles: " \o ToString(Len(self.profiles))>>
                ELSE << >>
        content_parts ==
            IF Len(content) > 0
                THEN <<"Generated items: " \o ToString(Len(content)),
                       "Last generated: " \o content[Len(content)].type>>
                ELSE << >>
        brand_parts ==
            IF "current_brand" \in DOMAIN context
                THEN <<"Current brand: " \o context["current_brand"]>>
                ELSE << >>
        theme_parts ==
            IF "current_theme" \in DOMAIN context
                THEN <<"Working on: " \o context["current_theme"]>>
                ELSE << >>
        summary_parts == project_parts \o profile_parts \o content_parts
                             \o brand_parts \o theme_parts
    IN  IF \/ Len(projects) > 0
              /\ "name" \notin DOMAIN projects[Len(projects)]
           \/ Len(content) > 0
              /\ "type" \notin DOMAIN content[Len(content)]
            THEN [raised |-> "KeyError", value |-> PyNone]
            ELSE [raised |-> "none",
                  value |-> IF Len(summary_parts) > 0
                                THEN join(" | ", summary_parts)
                                ELSE "No previous context."]

\* MemoryStore.clear empties the log only
clear_log_only(self) == [self EXCEPT !.generated_content = << >>]

\* MemoryStore.clear leaves the session context
clear_keeping_context(self) ==
    [MemoryStore EXCEPT !.session_context = self.session_context]

\* MemoryStore.clear
clear(self) == MemoryStore

\* str.lower() on the project names a caller passes
lower(name) ==
    CASE name = "Acme" -> "acme" [] name = "Bolt" -> "bolt" [] OTHER -> name

\* the loop of get_or_create_project over store.projects.items(): the
\* projects whose lower-case name is that of project_name
projects_named(self, project_name) ==
    {i \in DOMAIN self.projects :
        lower(self.projects[i].name) = lower(project_name)}

\* str(uuid.uuid4())[:8]: an id that no project of the store has
uuid4(self) == "id" \o ToString(Len(self.projects) + 1)

\* str.isdigit() and int() on the keys a caller passes
Keys == {"", "0", "1", "2", "3", "all"}
isdigit(key) == key \in {"0", "1", "2", "3"}
int(key) ==
    CASE key = "0" -> 0 [] key = "1" -> 1 [] key = "2" -> 2 [] key = "3" -> 3

\* recall_from_memory("content", key)
recall_from_memory_content(self, key) ==
    LET limit == IF key # "" /\ isdigit(key) THEN int(key) ELSE 10
        content == get_recent_content(self, limit)
    IN  [status |-> "success", data |-> content]

\* the values a caller passes to save_to_memory: a JSON object, a JSON
\* array, malformed JSON and plain text
JsonObject == "{\"name\": \"Acme\", \"type\": \"image\"}"
JsonArray == "[1, 2]"
Malformed == "{name"
Values == {JsonObject, JsonArray, Malformed, "hello"}

\* value.startswith("{") or value.startswith("[")
startswith_brace_or_bracket(value) ==
    value \in {JsonObject, JsonArray, Malformed}

\* json.loads(value)
json_loads(value) ==
    CASE value = JsonObject ->
            [raised |-> "none",
             data |-> Dict([name |-> "Acme", type |-> "image"])]
      [] value = JsonArray -> [raised |-> "none", data |-> List(<<1, 2>>)]
      [] OTHER -> [raised |-> "JSONDecodeError", data |-> PyNone]

\* save_to_memory(category, key, value) on the store self: the try block
\* wraps whatever json.loads rejects; data.get is an attribute of a dict
save_to_memory(self, category, key, value, t1, t2) ==
    LET wrapped == Dict([value |-> value])
        data == IF startswith_brace_or_bracket(value)
                       /\ json_loads(value).raised = "none"
                    THEN json_loads(value).data
                    ELSE wrapped
        AttributeError == [self |-> self, raised |-> "AttributeError",
                           result |-> PyNone]
        Returned(r) == [self |-> r.self, raised |-> "none",
                        result |-> r.result]
    IN  CASE category = "project" ->
                IF data.py # "dict" THEN AttributeError
                ELSE Returned(save_project(self, key, Get(data, "name", key),
                                           data, t1, t2))
          [] category = "profile" ->
                Returned(save_profile(self, key, data, t1))
          [] category = "content" ->
                IF data.py # "dict" THEN AttributeError
                ELSE Returned(save_generated_content(
                         self, Get(data, "type", "unknown"), data, key,
                         t1, t2))
          [] category = "context" ->
                [self |-> set_context(self, key, data), raised |-> "none",
                 result |-> [status |-> "success", key |-> key]]
          [] OTHER ->
                [self |-> self, raised |-> "none",
                 result |-> [status |-> "error",
                             message |-> "Unknown category: " \o category]]

\* recall_from_memory(category, key) on the store self
recall_from_memory(self, category, key) ==
    LET held(records, field) ==
            {i \in DOMAIN records : records[i][field] = key}
        one(records, field) ==
            IF held(records, field) # {}
                THEN [status |-> "success",
                      data |-> records[CHOOSE i \in held(records, field) :
                                           TRUE]]
                ELSE [status |-> "not_found"]
    IN  CASE category = "project" ->
                IF Truthy(key) THEN one(self.projects, "id")
                ELSE [status |-> "success", data |-> self.projects]
          [] category = "profile" ->
                IF Truthy(key) THEN one(self.profiles, "username")
                ELSE [status |-> "success", data |-> self.profiles]
          [] category = "content" ->
                recall_from_memory_content(self, key)
          [] category = "context" ->
                IF Truthy(key)
                    THEN [status |-> "success",
                          data |-> IF key \in DOMAIN self.session_context
                                       THEN self.session_context[key]
                                       ELSE PyNone]
                    ELSE [status |-> "success",
                          data |-> self.session_context]
          [] category = "summary" ->
                [status |-> "success",
                 summary |-> get_context_summary(self).value]
          [] OTHER ->
                [status |-> "error",
                 message |-> "Unknown category: " \o category]

(***************************************************************************)
(* State                                                                   *)
(***************************************************************************)
VARIABLES
    session,     \* the SessionState of the conversation
    now,         \* last reading of datetime.now(), in half-second ticks
    call,        \* result of the capability call the current turn made
    pre_call,    \* history: the session when that call was made
    since_mode,  \* history: marker states visited since MODE_SELECTION
    record,      \* the persisted dict of the session, PyNone before to_dict
    corruption,  \* history: what happened to the persisted dict in storage
    restored,    \* outcome of SessionState.from_dict(record)
    images_out,  \* results of the image filters of session.brand
    requested,   \* history: the new_state of the last transition() call
    store,       \* the MemoryStore, used by one caller at a time
    reply,       \* what the last MemoryStore call returned
    _memory_store, \* the module global of store.py: None or an instance
    heap,        \* the MemoryStore instances that were constructed
    threads,     \* the callers of get_memory_store(), one per thread
    video,       \* a video generation call: its polling loop
    web,         \* the web application: its sessions and its handlers
    pair         \* two sessions and the list objects their fields refer to

vars == <<session, now, call, pre_call, since_mode,
          record, corruption, restored, images_out, requested,
          store, reply, _memory_store, heap, threads, video, web, pair>>

ser_vars == <<record, corruption, restored, images_out>>

aux_vars == <<pair>>

svc_vars ==
    <<store, reply, _memory_store, heap, threads, video, web, aux_vars>>

Idle == [tool |-> "none", status |-> "none"]
NoSnapshot == [session_id |-> "none"]

\* states whose visit the history variable since_mode records
Markers == {"BRIEF_APPROVED", "GENERAL_IMAGE_GENERATING", "WEEK_APPROVED"}

Visit(new_state) ==
    IF new_state = "MODE_SELECTION" THEN {}
    ELSE since_mode \cup ({new_state} \cap Markers)

BrandNames == {"", "Acme"}
PostFields == {"theme", "selected_idea", "visual_brief", "image_path",
               "animation_style", "video_path", "caption", "hashtags"}
PostValue(f) == IF f = "hashtags" THEN <<"#tag">> ELSE "v_" \o f
TotalWeeksValues == {4, 8, 12}
PostsPerWeekValues == {2, 5, 6}

\* number of PostContext fields that differ from their default
PostFieldsSet(post) == Cardinality({f \in PostFields : post[f] # PostContext[f]})

NoCorruption == [kind |-> "none", key |-> "none"]
NotCalled == [raised |-> "not_called"]
NotQueried == [called |-> FALSE]

NoReply == [op |-> "none"]

NumThreads == 2
ThreadNames == <<"t1", "t2", "t3", "t4">>
Threads == {ThreadNames[i] : i \in 1..NumThreads}

\* a thread about to call get_memory_store()
NotStarted == [pc |-> "call", store |-> None, content_id |-> None]

NoVideo ==
    [tool |-> "none", pc |-> "idle", done |-> FALSE, max_wait_time |-> 0,
     polls |-> 0, failure |-> "none", status |-> "none"]

NumRequests == 2
Requests == 1..NumRequests

\* a request that has not arrived
NoRequest ==
    [pc |-> "none", endpoint |-> "none", user_id |-> "none",
     session_id |-> "none"]

\* no session was constructed
NoPair == [refs |-> << >>, objects |-> << >>, op |-> <<"none">>]

\* the module state of store.py and fast_api_app.py after import
InitSvc ==
    /\ store = MemoryStore
    /\ reply = NoReply
    /\ _memory_store = None
    /\ heap = [t \in Threads |-> PyNone]
    /\ threads = [t \in Threads |-> NotStarted]
    /\ video = NoVideo
    /\ web = [sessions |-> {}, handlers |-> [r \in Requests |-> NoRequest]]
    /\ pair = NoPair

\* nothing is persisted, restored or queried
InitSer ==
    /\ record = PyNone
    /\ corruption = NoCorruption
    /\ restored = NotCalled
    /\ images_out = NotQueried

\* no capability call was made, the clock starts
InitTurn ==
    /\ now = 0
    /\ call = Idle
    /\ pre_call = NoSnapshot
    /\ since_mode = {}
    /\ requested = None
    /\ InitSvc

Init ==
    /\ session = SessionState("s1", "u1", 0)
    /\ InitTurn
    /\ InitSer

\* the orchestrator goes on to its next step: the tool result is consumed
Consume ==
    /\ call' = Idle
    /\ pre_call' = NoSnapshot
    /\ UNCHANGED <<ser_vars, svc_vars>>

\* session.transition(new_state) by a caller that does not consult the table
Transition ==
    \E new_state \in WorkflowState, t \in now..MaxClock :
        /\ session' = transition(session, new_state, t)
        /\ now' = t
        /\ since_mode' = Visit(new_state)
        /\ requested' = new_state
        /\ Consume

\* session.transition(new_state) by a caller that first asks
\* StateTransitions.is_valid_transition(session.workflow_state, new_state)
TransitionChecked ==
    \E new_state \in WorkflowState, t \in now..MaxClock :
        /\ is_valid_transition(session.workflow_state, new_state)
        /\ session' = transition(session, new_state, t)
        /\ now' = t
        /\ since_mode' = Visit(new_state)
        /\ requested' = new_state
        /\ Consume

\* session.brand.name = name (brand info submitted, with or without a name)
SetBrandName ==
    \E name \in BrandNames :
        /\ session' = [session EXCEPT !.brand.name = name]
        /\ Consume
        /\ UNCHANGED <<now, since_mode, requested>>

\* session.post.<field> = value (a capability result is stored)
SetPostField ==
    \E f \in PostFields :
        /\ session.post[f] = PostContext[f]
        /\ PostFieldsSet(session.post) < MaxPostFields
        /\ session' = [session EXCEPT !.post[f] = PostValue(f)]
        /\ Consume
        /\ UNCHANGED <<now, since_mode, requested>>

\* session.post.reset()
ResetPost ==
    /\ session' = [session EXCEPT !.post = PostReset(session.post)]
    /\ Consume
    /\ UNCHANGED <<now, since_mode, requested>>

\* session.campaign.total_weeks = n
SetTotalWeeks ==
    \E n \in TotalWeeksValues :
        /\ session' = [session EXCEPT !.campaign.total_weeks = n]
        /\ Consume
        /\ UNCHANGED <<now, since_mode, requested>>

\* session.campaign.posts_per_week = n
SetPostsPerWeek ==
    \E n \in PostsPerWeekValues :
        /\ session' = [session EXCEPT !.campaign.posts_per_week = n]
        /\ Consume
        /\ UNCHANGED <<now, since_mode, requested>>

\* session.campaign.reset()
ResetCampaign ==
    /\ session' = [session EXCEPT !.campaign = CampaignReset(session.campaign)]
    /\ Consume
    /\ UNCHANGED <<now, since_mode, requested>>

\* variant: the call moves the session on unless the status is "error"
CallAnimateImage_advancing ==
    \E status \in AnimateImageStatuses :
        /\ call' = [tool |-> "animate_image", status |-> status]
        /\ pre_call' = session
        /\ session' = IF status # "error"
                          THEN transition(session, "ANIMATION_GENERATED", now)
                          ELSE session
        /\ UNCHANGED <<now, since_mode, requested>>
        /\ UNCHANGED <<ser_vars, svc_vars>>

\* the turn calls animate_image(...); the tool has no access to the session
CallAnimateImage ==
    \E status \in AnimateImageStatuses :
        /\ call' = [tool |-> "animate_image", status |-> status]
        /\ pre_call' = session
        /\ UNCHANGED <<session, now, since_mode, requested>>
        /\ UNCHANGED <<ser_vars, svc_vars>>

\* the turn calls generate_post_image(...)
CallGeneratePostImage ==
    \E status \in GeneratePostImageStatuses :
        /\ call' = [tool |-> "generate_post_image", status |-> status]
        /\ pre_call' = session
        /\ UNCHANGED <<session, now, since_mode, requested>>
        /\ UNCHANGED <<ser_vars, svc_vars>>

\* the turn calls write_caption(...)
CallWriteCaption ==
    \E status \in WriteCaptionStatuses :
        /\ call' = [tool |-> "write_caption", status |-> status]
        /\ pre_call' = session
        /\ UNCHANGED <<session, now, since_mode, requested>>
        /\ UNCHANGED <<ser_vars, svc_vars>>

\* the session API used by a caller that does not validate transitions
Next ==
    \/ Transition
    \/ SetBrandName
    \/ SetPostField
    \/ ResetPost
    \/ SetTotalWeeks
    \/ SetPostsPerWeek
    \/ ResetCampaign

Spec == Init /\ [][Next]_vars

\* the same caller on a session that runs no campaign
NextSession ==
    \/ Transition
    \/ SetBrandName
    \/ SetPostField
    \/ ResetPost

SpecSession == Init /\ [][NextSession]_vars

\* a conversation whose orchestrator validates every transition against the
\* table and calls the capabilities
NextChecked ==
    \/ TransitionChecked
    \/ SetBrandName
    \/ SetPostField
    \/ ResetPost
    \/ SetTotalWeeks
    \/ CallAnimateImage
    \/ CallGeneratePostImage
    \/ CallWriteCaption

SpecChecked == Init /\ [][NextChecked]_vars

(***************************************************************************)
(* A campaign: the week pointer                                            *)
(***************************************************************************)
MaxWeek == 5

\* persisted campaign records: keys that are absent take the defaults
CampaignRecords ==
    {Dict([total_weeks |-> total, current_week |-> week]) :
        total \in TotalWeeksValues, week \in 1..MaxWeek}

\* session.campaign.completed_weeks.append(current_week) and
\* session.campaign.current_week += 1, when the next week is asked for
AdvanceWeek ==
    /\ session.workflow_state = "CAMPAIGN_NEXT_WEEK"
    /\ session.campaign.current_week < MaxWeek
    /\ session' = [session EXCEPT
                      !.campaign.completed_weeks =
                          Append(@, session.campaign.current_week),
                      !.campaign.current_week = @ + 1]
    /\ Consume
    /\ UNCHANGED <<now, since_mode, requested>>

\* session.campaign = CampaignContext.from_dict(data)
LoadCampaign ==
    \E data \in CampaignRecords :
        /\ session' = [session EXCEPT
                          !.campaign = CampaignContext_from_dict(data)]
        /\ Consume
        /\ UNCHANGED <<now, since_mode, requested>>

NextCampaign ==
    \/ TransitionChecked
    \/ SetTotalWeeks
    \/ AdvanceWeek
    \/ LoadCampaign
    \/ ResetCampaign

SpecCampaign == Init /\ [][NextCampaign]_vars

(***************************************************************************)
(* Persisting a session: to_dict, storage, from_dict                       *)
(***************************************************************************)
\* a UserUploadedImage instance as an upload creates it
ObjImage(id, usage_intent) ==
    UserUploadedImage(id, id \o ".png", "/uploads/" \o id, "/u/" \o id,
                      "2026-01-01", usage_intent, <<"#ffffff">>,
                      Tuple(<<1080, 1080>>))

\* entries of user_images: instances, a dict with every key, a dict with
\* some keys
ImageSamples ==
    {ObjImage("a", "auto"),
     ObjImage("s", "style_reference"),
     UserUploadedImage_to_dict(ObjImage("d", "background")),
     Dict([id |-> "p", usage_intent |-> "style_reference"])}

ImageLists == UNION {[1..n -> ImageSamples] : n \in 0..MaxImages}

PopulatedPost ==
    [theme |-> "launch", selected_idea |-> "idea", visual_brief |-> "brief",
     image_path |-> "/generated/post.png", animation_style |-> "zoom",
     video_path |-> "/generated/post.mp4", caption |-> "caption",
     hashtags |-> <<"#tag">>]

PopulatedCampaign ==
    [month |-> "January", posts_per_week |-> 3, total_weeks |-> 8,
     current_week |-> 2, completed_weeks |-> <<1>>,
     posts_generated |-> <<"post1">>]

\* the sessions that are persisted
SerialSessions ==
    {[session_id |-> "s1", user_id |-> "u1", workflow_state |-> w,
      mode |-> IF populated THEN "single" ELSE None,
      brand |-> [BrandContext EXCEPT
                    !.name = IF populated THEN "Acme" ELSE "",
                    !.colors = IF populated THEN <<"#112233">> ELSE << >>,
                    !.user_images = images],
      post |-> IF populated THEN PopulatedPost ELSE PostContext,
      campaign |-> IF populated THEN PopulatedCampaign ELSE CampaignContext,
      created_at |-> times[1], updated_at |-> times[2]] :
        w \in WorkflowState, populated \in BOOLEAN, images \in ImageLists,
        times \in {p \in (0..MaxClock) \X (0..MaxClock) : p[1] <= p[2]}}

SubRecordKeys == {"brand", "post", "campaign"}
RequiredKeys ==
    {"session_id", "user_id", "workflow_state", "created_at", "updated_at"}

\* what can be wrong with a persisted record
Corruptions ==
    {[kind |-> "missing_key", key |-> k] : k \in RequiredKeys \cup SubRecordKeys}
    \cup {[kind |-> "unknown_state", key |-> "workflow_state"]}
    \cup {[kind |-> k, key |-> sub] :
              k \in {"not_a_dict", "missing_field", "unknown_field"},
              sub \in SubRecordKeys}
    \cup {[kind |-> "bad_timestamp", key |-> k] :
              k \in {"created_at", "updated_at"}}

\* a field of each sub-record
SomeField(sub) ==
    CASE sub = "brand" -> "name"
      [] sub = "post" -> "image_path"
      [] sub = "campaign" -> "total_weeks"

Corrupted(data, c) ==
    CASE c.kind = "missing_key" -> Without(data, c.key)
      [] c.kind = "unknown_state" -> With(data, "workflow_state", "bogus")
      [] c.kind = "not_a_dict" -> With(data, c.key, PyNone)
      [] c.kind = "missing_field" ->
             With(data, c.key, Without(data.f[c.key], SomeField(c.key)))
      [] c.kind = "unknown_field" ->
             With(data, c.key, With(data.f[c.key], "extra", "x"))
      [] c.kind = "bad_timestamp" -> With(data, c.key, << >>)

InitSerial ==
    /\ session \in SerialSessions
    /\ InitTurn
    /\ InitSer

\* record = session.to_dict()
ToDict ==
    /\ record = PyNone
    /\ record' = SessionState_to_dict(session)
    /\ UNCHANGED <<svc_vars, requested, session, now, call, pre_call, since_mode,
                   corruption, restored, images_out>>

\* the stored record is damaged before it is read back
Corrupt ==
    \E c \in Corruptions :
        /\ record # PyNone
        /\ corruption = NoCorruption
        /\ restored = NotCalled
        /\ record' = Corrupted(record, c)
        /\ corruption' = c
        /\ UNCHANGED <<svc_vars, requested, session, now, call, pre_call, since_mode,
                       restored, images_out>>

\* restored = SessionState.from_dict(record)
FromDict ==
    /\ record # PyNone
    /\ restored = NotCalled
    /\ restored' = SessionState_from_dict(record)
    /\ UNCHANGED <<svc_vars, requested, session, now, call, pre_call, since_mode,
                   record, corruption, images_out>>

NextSerial == ToDict \/ Corrupt \/ FromDict

SpecSerial == InitSerial /\ [][NextSerial]_vars

(***************************************************************************)
(* Querying the images of a brand                                          *)
(***************************************************************************)
BrandSamples ==
    {[BrandContext EXCEPT !.name = name, !.reference_images = refs,
                          !.user_images = images] :
        name \in BrandNames, refs \in {<< >>, <<"ref.png">>},
        images \in ImageLists}

InitBrand ==
    /\ session \in {[SessionState("s1", "u1", 0) EXCEPT !.brand = b] :
                       b \in BrandSamples}
    /\ InitTurn
    /\ InitSer

\* brand.get_images_for_generation() and brand.get_style_reference_images()
QueryImages ==
    /\ images_out = NotQueried
    /\ images_out' =
           [called |-> TRUE,
            for_generation |-> get_images_for_generation(session.brand),
            style_reference |-> get_style_reference_images(session.brand)]
    /\ UNCHANGED <<svc_vars, requested, session, now, call, pre_call, since_mode,
                   record, corruption, restored>>

NextBrand == QueryImages

SpecBrand == InitBrand /\ [][NextBrand]_vars

(***************************************************************************)
(* Querying the images of a brand by intent                                *)
(***************************************************************************)
\* an upload whose record carries an intent outside USER_IMAGE_INTENTS
BannerImage ==
    UserUploadedImage_from_dict(Dict([id |-> "b", usage_intent |-> "banner"]))

IntentImageLists ==
    UNION {[1..n -> ImageSamples \cup {BannerImage}] : n \in 0..MaxImages}

\* the intents a caller asks for: the vocabulary and two strings outside it
Intents == Range(USER_IMAGE_INTENTS) \cup {"banner", "hero"}

InitIntent ==
    /\ session \in {[SessionState("s1", "u1", 0) EXCEPT
                        !.brand.user_images = images] :
                       images \in IntentImageLists}
    /\ InitTurn
    /\ InitSer

\* brand.get_user_images_by_intent(intent)
QueryByIntent ==
    \E intent \in Intents :
        /\ images_out' =
               [called |-> TRUE, intent |-> intent,
                by_intent |-> get_user_images_by_intent(session.brand,
                                                        intent)]
        /\ UNCHANGED <<svc_vars, requested, session, now, call, pre_call,
                       since_mode, record, corruption, restored>>

NextIntent == QueryByIntent

SpecIntent == InitIntent /\ [][NextIntent]_vars

(***************************************************************************)
(* Two sessions and the list objects of their sub-contexts.  A list field  *)
(* holds a reference; pair.objects maps a reference to the list's items.   *)
(***************************************************************************)
MaxItems == 1

\* the list fields of BrandContext, PostContext and CampaignContext
ListFields ==
    {"colors", "reference_images", "user_images", "hashtags",
     "completed_weeks", "posts_generated"}

\* the list that field(default_factory=list) or a comprehension creates
\* for a field of session s
Fresh(s, f) == s \o "." \o f

\* SessionState(s, user_id): every list field gets a list of its own
NewSessionRefs(s) == [f \in ListFields |-> Fresh(s, f)]

\* the values that s.to_dict() holds for the list fields: the lists of the
\* session themselves, except user_images, which a comprehension rebuilds
ToDictRefs(p, s) ==
    [f \in ListFields |->
        IF f = "user_images" THEN Fresh("dict", f) ELSE p.refs[s][f]]

\* SessionState.from_dict(data): cls(**data) and data.get(...) pass the
\* lists of the dict on; user_images is rebuilt by a comprehension
FromDictRefs(data, s) ==
    [f \in ListFields |->
        IF f = "user_images" THEN Fresh(s, f) ELSE data[f]]

\* the items of the list fields of session s
ListsOf(p, s) == [f \in ListFields |-> p.objects[p.refs[s][f]]]

\* s1 = SessionState("s1", "u1")
ConstructFirst ==
    /\ pair = NoPair
    /\ pair' = [refs |-> ("s1" :> NewSessionRefs("s1")),
                objects |-> [r \in Range(NewSessionRefs("s1")) |-> << >>],
                op |-> <<"construct", "s1">>]
    /\ UNCHANGED <<session, now, call, pre_call, since_mode, requested,
                   ser_vars, store, reply, _memory_store, heap, threads,
                   video, web>>

\* s2 = SessionState("s2", "u1")
ConstructSecond ==
    /\ DOMAIN pair.refs = {"s1"}
    /\ pair' = [refs |-> pair.refs @@ ("s2" :> NewSessionRefs("s2")),
                objects |-> pair.objects @@
                    [r \in Range(NewSessionRefs("s2")) |-> << >>],
                op |-> <<"construct", "s2">>]
    /\ UNCHANGED <<session, now, call, pre_call, since_mode, requested,
                   ser_vars, store, reply, _memory_store, heap, threads,
                   video, web>>

\* s2 = SessionState.from_dict(s1.to_dict())
RestoreSecond ==
    /\ DOMAIN pair.refs = {"s1"}
    /\ LET data == ToDictRefs(pair, "s1")
            images == pair.objects[pair.refs["s1"]["user_images"]]
            refs == FromDictRefs(data, "s2")
       IN  pair' = [refs |-> pair.refs @@ ("s2" :> refs),
                    objects |-> pair.objects @@
                        (refs["user_images"] :> images),
                    op |-> <<"from_dict", "s2">>]
    /\ UNCHANGED <<session, now, call, pre_call, since_mode, requested,
                   ser_vars, store, reply, _memory_store, heap, threads,
                   video, web>>

\* s.brand.colors.append(x), s.post.hashtags.append(x), ...
AppendItem ==
    \E s \in DOMAIN pair.refs, f \in ListFields :
        LET r == pair.refs[s][f]
        IN  /\ Len(pair.objects[r]) < MaxItems
            /\ pair' = [pair EXCEPT !.objects[r] = Append(@, "x"),
                                    !.op = <<"append", s, f>>]
            /\ UNCHANGED <<session, now, call, pre_call, since_mode, requested,
                   ser_vars, store, reply, _memory_store, heap, threads,
                   video, web>>

NextOwnership ==
    \/ ConstructFirst
    \/ ConstructSecond
    \/ RestoreSecond
    \/ AppendItem

SpecOwnership == Init /\ [][NextOwnership]_vars

(***************************************************************************)
(* Resetting the post and the campaign of a session in use                 *)
(***************************************************************************)
\* a session in the middle of a campaign, with a finished post
InitReset ==
    /\ session = [SessionState("s1", "u1", 0) EXCEPT
                     !.mode = "campaign", !.brand.name = "Acme",
                     !.post = PopulatedPost, !.campaign = PopulatedCampaign]
    /\ InitTurn
    /\ InitSer

NextReset ==
    \/ SetPostField
    \/ ResetPost
    \/ SetTotalWeeks
    \/ SetPostsPerWeek
    \/ ResetCampaign

SpecReset == InitReset /\ [][NextReset]_vars

(***************************************************************************)
(* The MemoryStore used by one caller at a time                            *)
(***************************************************************************)
ProjectIds == {"p1", "p2"}
ProjectNames == {"Acme", "Bolt"}
ContentTypes == {"image", "caption"}

\* store.save_project(project_id, name, brand_info)
SaveProject ==
    \E project_id \in ProjectIds, name \in ProjectNames,
       t1 \in now..MaxClock :
        \E t2 \in t1..MaxClock :
            LET brand_info == Dict([name |-> name])
                r == save_project(store, project_id, name, brand_info, t1, t2)
            IN  /\ store' = r.self
                /\ reply' = [op |-> "save_project", project_id |-> project_id,
                             name |-> name, brand_info |-> brand_info,
                             result |-> r.result]
                /\ now' = t2
                /\ UNCHANGED <<session, call, pre_call, since_mode, requested,
                       aux_vars, ser_vars, _memory_store, heap, threads, video, web>>

\* store.save_generated_content(content_type, content, project_id)
SaveGeneratedContent ==
    \E content_type \in ContentTypes, project_id \in ProjectIds \cup {None},
       t1 \in now..MaxClock :
        \E t2 \in t1..MaxClock :
            LET r == save_generated_content(store, content_type, "content",
                                            project_id, t1, t2)
            IN  /\ Len(store.generated_content) < MaxLog
                /\ store' = r.self
                /\ reply' = [op |-> "save_generated_content",
                             project_id |-> project_id, result |-> r.result]
                /\ now' = t2
                /\ UNCHANGED <<session, call, pre_call, since_mode, requested,
                       aux_vars, ser_vars, _memory_store, heap, threads, video, web>>

\* store.get_recent_content(limit)
GetRecentContent ==
    \E limit \in 0..(MaxLog + 1) :
        /\ reply' = [op |-> "get_recent_content", limit |-> limit,
                     data |-> get_recent_content(store, limit)]
        /\ UNCHANGED <<store, now>>
        /\ UNCHANGED <<session, call, pre_call, since_mode, requested,
                       aux_vars, ser_vars, _memory_store, heap, threads, video, web>>

\* recall_from_memory("content", key)
RecallContent ==
    \E key \in Keys :
        /\ reply' = [op |-> "recall_from_memory", key |-> key,
                     result |-> recall_from_memory_content(store, key)]
        /\ UNCHANGED <<store, now>>
        /\ UNCHANGED <<session, call, pre_call, since_mode, requested,
                       aux_vars, ser_vars, _memory_store, heap, threads, video, web>>

\* store.clear()
Clear ==
    /\ store' = clear(store)
    /\ reply' = [op |-> "clear"]
    /\ UNCHANGED now
    /\ UNCHANGED <<session, call, pre_call, since_mode, requested,
                       aux_vars, ser_vars, _memory_store, heap, threads, video, web>>

Usernames == {"nike"}
ContextKeys == {"current_brand", "current_theme"}
ContextValues == {"Acme"}

\* store.save_profile(username, profile_data)
SaveProfile ==
    \E username \in Usernames, t1 \in now..MaxClock :
        LET r == save_profile(store, username, Dict([followers |-> 1]), t1)
        IN  /\ store' = r.self
            /\ reply' = [op |-> "save_profile", result |-> r.result]
            /\ now' = t1
            /\ UNCHANGED <<session, call, pre_call, since_mode, requested,
                       aux_vars, ser_vars, _memory_store, heap, threads, video, web>>

\* store.set_context(key, value)
SetContext ==
    \E key \in ContextKeys, value \in ContextValues :
        /\ store' = set_context(store, key, value)
        /\ reply' = [op |-> "set_context"]
        /\ UNCHANGED now
        /\ UNCHANGED <<session, call, pre_call, since_mode, requested,
                       aux_vars, ser_vars, _memory_store, heap, threads, video, web>>

\* store.get_context_summary()
GetContextSummary ==
    /\ reply' = [op |-> "get_context_summary",
                 result |-> get_context_summary(store)]
    /\ UNCHANGED <<store, now>>
    /\ UNCHANGED <<session, call, pre_call, since_mode, requested,
                       aux_vars, ser_vars, _memory_store, heap, threads, video, web>>

NextSummary ==
    \/ SaveProject
    \/ SaveProfile
    \/ SaveGeneratedContent
    \/ SetContext
    \/ Clear
    \/ GetContextSummary

\* the store is first used at the last reading of the clock
InitSummary ==
    /\ session = SessionState("s1", "u1", 0)
    /\ now = MaxClock
    /\ call = Idle
    /\ pre_call = NoSnapshot
    /\ since_mode = {}
    /\ requested = None
    /\ InitSvc
    /\ InitSer

SpecSummary == InitSummary /\ [][NextSummary]_vars

Categories ==
    {"project", "profile", "content", "context", "summary", "notes"}
SavedKeys == {"p1"}
RecalledKeys == {"p1", "2", None}

\* save_to_memory(category, key, value)
SaveToMemory ==
    \E category \in Categories, key \in SavedKeys, value \in Values,
       t1 \in now..MaxClock :
        LET r == save_to_memory(store, category, key, value, t1, t1)
        IN  /\ Len(store.generated_content) < MaxLog
            /\ store' = r.self
            /\ reply' = [op |-> "save_to_memory", category |-> category,
                         value |-> value, raised |-> r.raised,
                         result |-> r.result]
            /\ now' = t1
            /\ UNCHANGED <<session, call, pre_call, since_mode, requested,
                       aux_vars, ser_vars, _memory_store, heap, threads, video, web>>

\* recall_from_memory(category, key)
RecallFromMemory ==
    \E category \in Categories, key \in RecalledKeys :
        /\ reply' = [op |-> "recall_from_memory", category |-> category,
                     raised |-> "none",
                     result |-> recall_from_memory(store, category, key)]
        /\ UNCHANGED <<store, now>>
        /\ UNCHANGED <<session, call, pre_call, since_mode, requested,
                       aux_vars, ser_vars, _memory_store, heap, threads, video, web>>

NextMemory ==
    \/ SaveToMemory
    \/ RecallFromMemory

SpecMemory == InitSummary /\ [][NextMemory]_vars

MaxProjects == 2
RequestedNames == {"Acme", "acme", "Bolt"}

\* get_or_create_project(project_name), up to the end of its loop over the
\* projects of the store: a project of that name is returned, or the call
\* goes on to create one
ScanProjects ==
    \E t \in Threads, project_name \in RequestedNames :
        LET found == projects_named(store, project_name)
            first == CHOOSE i \in found : \A j \in found : i <= j
        IN  /\ threads[t].pc = "call"
            /\ Len(store.projects) < MaxProjects
            /\ threads' = [threads EXCEPT ![t] =
                   IF found # {}
                       THEN [pc |-> "returned", project_name |-> project_name,
                             result |-> [status |-> "success",
                                         project |-> store.projects[first],
                                         is_new |-> FALSE]]
                       ELSE [pc |-> "create", project_name |-> project_name]]
            /\ UNCHANGED <<store, reply, now>>
            /\ UNCHANGED <<session, call, pre_call, since_mode, requested,
                       aux_vars, ser_vars, _memory_store, heap, video, web>>

\* get_or_create_project, from uuid4() to its return: store.save_project
\* with brand_name "", niche "" and tone "professional"
CreateProject ==
    \E t \in Threads :
        /\ threads[t].pc = "create"
        /\ LET project_name == threads[t].project_name
               project_id == uuid4(store)
               brand_info == Dict([name |-> project_name, niche |-> "",
                                   tone |-> "professional"])
               r == save_project(store, project_id, project_name, brand_info,
                                 now, now)
               project == r.self.projects[ProjectIndex(r.self, project_id)]
           IN  /\ store' = r.self
               /\ threads' = [threads EXCEPT ![t] =
                      [pc |-> "returned", project_name |-> project_name,
                       result |-> [status |-> "success", project |-> project,
                                   is_new |-> TRUE]]]
        /\ UNCHANGED <<reply, now>>
        /\ UNCHANGED <<session, call, pre_call, since_mode, requested,
                       aux_vars, ser_vars, _memory_store, heap, video, web>>

\* the caller takes the result; the thread is free for its next call
TakeProject ==
    \E t \in Threads :
        /\ threads[t].pc = "returned"
        /\ "project_name" \in DOMAIN threads[t]
        /\ threads' = [threads EXCEPT ![t] = NotStarted]
        /\ UNCHANGED <<store, reply, now>>
        /\ UNCHANGED <<session, call, pre_call, since_mode, requested,
                       aux_vars, ser_vars, _memory_store, heap, video, web>>

NextProjects ==
    \/ ScanProjects
    \/ CreateProject
    \/ TakeProject

SpecProjects == Init /\ [][NextProjects]_vars


NextStore ==
    \/ SaveProject
    \/ SaveGeneratedContent
    \/ GetRecentContent
    \/ RecallContent
    \/ Clear

SpecStore == Init /\ [][NextStore]_vars

(***************************************************************************)
(* Threads that call get_memory_store() and save_generated_content         *)
(***************************************************************************)
\* `if _memory_store is None`
CheckStore(t) ==
    /\ threads[t].pc = "call"
    /\ threads' = [threads EXCEPT ![t].pc =
                      IF _memory_store = None THEN "create" ELSE "return"]
    /\ UNCHANGED <<_memory_store, heap>>
    /\ UNCHANGED <<session, now, call, pre_call, since_mode, requested,
                   aux_vars, ser_vars, store, reply, video, web>>

\* `_memory_store = MemoryStore()`: the instance is named after its maker
CreateStore(t) ==
    /\ threads[t].pc = "create"
    /\ heap' = [heap EXCEPT ![t] = MemoryStore]
    /\ _memory_store' = t
    /\ threads' = [threads EXCEPT ![t].pc = "return"]
    /\ UNCHANGED <<session, now, call, pre_call, since_mode, requested,
                   aux_vars, ser_vars, store, reply, video, web>>

\* `return _memory_store`
ReturnStore(t) ==
    /\ threads[t].pc = "return"
    /\ threads' = [threads EXCEPT ![t].store = _memory_store,
                                  ![t].pc = "append"]
    /\ UNCHANGED <<_memory_store, heap>>
    /\ UNCHANGED <<session, now, call, pre_call, since_mode, requested,
                   aux_vars, ser_vars, store, reply, video, web>>

\* `self.generated_content.append(entry)`; the content names the caller
AppendEntry(t) ==
    /\ threads[t].pc = "append"
    /\ heap' = [heap EXCEPT ![threads[t].store].generated_content =
                   Append(@, [type |-> "image", content |-> t,
                              project_id |-> None,
                              created_at |-> isoformat(now)])]
    /\ threads' = [threads EXCEPT ![t].pc = "history"]
    /\ UNCHANGED _memory_store
    /\ UNCHANGED <<session, now, call, pre_call, since_mode, requested,
                   aux_vars, ser_vars, store, reply, video, web>>

\* `if project_id and project_id in self.projects`, false without a project
SkipHistory(t) ==
    /\ threads[t].pc = "history"
    /\ threads' = [threads EXCEPT ![t].pc = "length"]
    /\ UNCHANGED <<_memory_store, heap>>
    /\ UNCHANGED <<session, now, call, pre_call, since_mode, requested,
                   aux_vars, ser_vars, store, reply, video, web>>

\* `return {..., "content_id": len(self.generated_content) - 1}`
ReturnContentId(t) ==
    /\ threads[t].pc = "length"
    /\ threads' = [threads EXCEPT
                      ![t].content_id =
                          Len(heap[threads[t].store].generated_content) - 1,
                      ![t].pc = "done"]
    /\ UNCHANGED <<_memory_store, heap>>
    /\ UNCHANGED <<session, now, call, pre_call, since_mode, requested,
                   aux_vars, ser_vars, store, reply, video, web>>

NextThreads ==
    \E t \in Threads :
        \/ CheckStore(t)
        \/ CreateStore(t)
        \/ ReturnStore(t)
        \/ AppendEntry(t)
        \/ SkipHistory(t)
        \/ ReturnContentId(t)

SpecThreads == Init /\ [][NextThreads]_vars

(***************************************************************************)
(* The handlers of /chat, /chat/stream and /ws/{session_id}                *)
(***************************************************************************)
Endpoints == {"chat", "chat_stream", "websocket"}
UserIds == {"default_user", "alice"}
SessionIds == {"s1", "s2"}

\* the session of a request, as session_service keys it
SessionKey(h) == <<h.user_id, h.session_id>>

\* where a handler goes once its session exists
Ready(h) == IF h.endpoint = "websocket" THEN "receive" ELSE "ready"

\* a request arrives; a WebSocket connection has user_id "default_user"
Arrive(r) ==
    \E endpoint \in Endpoints, user_id \in UserIds,
       session_id \in SessionIds :
        /\ web.handlers[r].pc = "none"
        /\ endpoint = "websocket" => user_id = "default_user"
        /\ web' = [web EXCEPT !.handlers[r] =
                      [pc |-> "lookup", endpoint |-> endpoint,
                       user_id |-> user_id, session_id |-> session_id]]
        /\ UNCHANGED <<session, now, call, pre_call, since_mode, requested,
                   aux_vars, ser_vars, store, reply, _memory_store, heap, threads,
                   video>>

\* session = await session_service.get_session(...)
LookupSession(r) ==
    LET h == web.handlers[r]
    IN  /\ h.pc = "lookup"
        /\ web' = [web EXCEPT !.handlers[r].pc =
                      IF SessionKey(h) \in web.sessions
                          THEN Ready(h) ELSE "create"]
        /\ UNCHANGED <<session, now, call, pre_call, since_mode, requested,
                   aux_vars, ser_vars, store, reply, _memory_store, heap, threads,
                   video>>

\* await session_service.create_session(...)
CreateSession(r) ==
    LET h == web.handlers[r]
    IN  /\ h.pc = "create"
        /\ web' = [web EXCEPT !.sessions = @ \cup {SessionKey(h)},
                              !.handlers[r].pc = Ready(h)]
        /\ UNCHANGED <<session, now, call, pre_call, since_mode, requested,
                   aux_vars, ser_vars, store, reply, _memory_store, heap, threads,
                   video>>

\* data = await websocket.receive_json()
ReceiveMessage(r) ==
    /\ web.handlers[r].pc = "receive"
    /\ web' = [web EXCEPT !.handlers[r].pc = "ready"]
    /\ UNCHANGED <<session, now, call, pre_call, since_mode, requested,
                   aux_vars, ser_vars, store, reply, _memory_store, heap, threads,
                   video>>

\* except WebSocketDisconnect
Disconnect(r) ==
    /\ web.handlers[r].pc = "receive"
    /\ web' = [web EXCEPT !.handlers[r].pc = "done"]
    /\ UNCHANGED <<session, now, call, pre_call, since_mode, requested,
                   aux_vars, ser_vars, store, reply, _memory_store, heap, threads,
                   video>>

\* `async for event in runner.run_async(...)` is entered: the turn runs
StartRun(r) ==
    /\ web.handlers[r].pc = "ready"
    /\ web' = [web EXCEPT !.handlers[r].pc = "running"]
    /\ UNCHANGED <<session, now, call, pre_call, since_mode, requested,
                   aux_vars, ser_vars, store, reply, _memory_store, heap, threads,
                   video>>

\* the last event was received: the turn is over
FinishRun(r) ==
    LET h == web.handlers[r]
    IN  /\ h.pc = "running"
        /\ web' = [web EXCEPT !.handlers[r].pc =
                      IF h.endpoint = "websocket" THEN "receive" ELSE "done"]
        /\ UNCHANGED <<session, now, call, pre_call, since_mode, requested,
                   aux_vars, ser_vars, store, reply, _memory_store, heap, threads,
                   video>>

NextWeb ==
    \E r \in Requests :
        \/ Arrive(r)
        \/ LookupSession(r)
        \/ CreateSession(r)
        \/ ReceiveMessage(r)
        \/ Disconnect(r)
        \/ StartRun(r)
        \/ FinishRun(r)

SpecWeb == Init /\ [][NextWeb]_vars

(***************************************************************************)
(* A video generation call, one poll at a time                             *)
(***************************************************************************)
VideoTools == {"animate_image", "generate_video_from_text"}

\* animate_image sleeps poll_interval, generate_video_from_text a literal 10
PollInterval(tool) == IF tool = "animate_image" THEN poll_interval ELSE 10

\* the status of the except clauses for an exception of the given kind
ExceptStatus(kind) ==
    IF kind = "unavailable" THEN "model_unavailable" ELSE _format_error

\* the call up to client.models.generate_videos(...): it returns early, or
\* the operation is started and is found done or not
StartVideo ==
    \E tool \in VideoTools, done \in BOOLEAN,
       failure \in {"none", "image_not_found", "unavailable", "other"} :
        /\ video.pc = "idle"
        /\ failure = "image_not_found" => tool = "animate_image"
        /\ video' =
               IF failure = "none"
                   THEN [tool |-> tool, pc |-> "loop", done |-> done,
                         max_wait_time |-> max_wait_time, polls |-> 0,
                         failure |-> "none", status |-> "none"]
                   ELSE [tool |-> tool, pc |-> "returned", done |-> FALSE,
                         max_wait_time |-> 0, polls |-> 0,
                         failure |-> failure,
                         status |-> ExceptStatus(failure)]
        /\ UNCHANGED <<session, now, call, pre_call, since_mode, requested,
                       aux_vars, ser_vars, store, reply, _memory_store, heap, threads,
                       web>>

\* variant: the body of the loop does not count the budget down
Poll_no_countdown ==
    \E done \in BOOLEAN, failure \in {"none", "unavailable", "other"} :
        /\ video.pc = "loop"
        /\ ~video.done
        /\ video' =
               IF failure # "none"
                   THEN [video EXCEPT !.polls = @ + 1, !.pc = "returned",
                                      !.failure = failure,
                                      !.status = ExceptStatus(failure)]
                   ELSE [video EXCEPT !.polls = @ + 1, !.done = done]
        /\ UNCHANGED <<session, now, call, pre_call, since_mode, requested,
                       aux_vars, ser_vars, store, reply, _memory_store, heap, threads,
                       web>>

\* one pass of the body of `while not operation.done`: sleep, fetch the
\* operation, count the budget down, return "timeout" when it is used up
Poll ==
    \E done \in BOOLEAN, failure \in {"none", "unavailable", "other"} :
        /\ video.pc = "loop"
        /\ ~video.done
        /\ video' =
               IF failure # "none"
                   THEN [video EXCEPT !.polls = @ + 1, !.pc = "returned",
                                      !.failure = failure,
                                      !.status = ExceptStatus(failure)]
                   ELSE LET wait == video.max_wait_time
                                        - PollInterval(video.tool)
                        IN  [video EXCEPT
                                !.polls = @ + 1, !.done = done,
                                !.max_wait_time = wait,
                                !.pc = IF wait <= 0 THEN "returned" ELSE @,
                                !.status = IF wait <= 0 THEN "timeout" ELSE @]
        /\ UNCHANGED <<session, now, call, pre_call, since_mode, requested,
                       aux_vars, ser_vars, store, reply, _memory_store, heap, threads,
                       web>>

\* the loop is left with operation.done: the result is read and saved
FinishVideo ==
    \E result \in {"none", "empty", "video"},
       failure \in {"none", "unavailable", "other"} :
        /\ video.pc = "loop"
        /\ video.done
        /\ failure # "none" => result = "video"
        /\ video' = [video EXCEPT
                        !.pc = "returned",
                        !.failure = failure,
                        !.status = IF failure # "none"
                                       THEN ExceptStatus(failure)
                                   ELSE IF result = "video" THEN "success"
                                   ELSE "error"]
        /\ UNCHANGED <<session, now, call, pre_call, since_mode, requested,
                       aux_vars, ser_vars, store, reply, _memory_store, heap, threads,
                       web>>

NextVideo == StartVideo \/ Poll \/ FinishVideo

SpecVideo == Init /\ [][NextVideo]_vars

(***************************************************************************)
(* Properties of the workflow and the session                              *)
(***************************************************************************)
\* C1: every change of the session's workflow_state is a transition declared
\* in VALID_TRANSITIONS (transition() rejects an undeclared new_state).
C1_OnlyDeclaredChanges ==
    [][session'.workflow_state # session.workflow_state
          => is_valid_transition(session.workflow_state,
                                 session'.workflow_state)]_vars

\* C2: transition closure. Every state reached from START by declared
\* transitions has a non-empty get_valid_next_states, except possibly the
\* sinks COMPLETE and ERROR.
C2_TransitionClosure ==
    \/ Len(get_valid_next_states(session.workflow_state)) > 0
    \/ session.workflow_state \in {"COMPLETE", "ERROR"}

C2_Witness ==
    /\ session.workflow_state = "CAROUSEL_COMPLETE"
    /\ Range(get_valid_next_states(session.workflow_state))
           = {"COMPLETE", "MODE_SELECTION"}

\* C3 as stated: along declared transitions, IMAGE_GENERATED is entered only
\* after BRIEF_APPROVED or the quick path's GENERAL_IMAGE_GENERATING was
\* visited since the last visit to MODE_SELECTION.
C3_NoSkipAsStated ==
    session.workflow_state = "IMAGE_GENERATED"
        => since_mode \cap {"BRIEF_APPROVED", "GENERAL_IMAGE_GENERATING"} # {}

\* C3 amended: along declared transitions, IMAGE_GENERATED is entered only
\* after BRIEF_APPROVED, the quick path's GENERAL_IMAGE_GENERATING or the
\* campaign flow's WEEK_APPROVED (edge WEEK_APPROVED -> POST_GENERATING) was
\* visited since the last visit to MODE_SELECTION.
C3_NoSkip ==
    session.workflow_state = "IMAGE_GENERATED"
        => since_mode \cap {"BRIEF_APPROVED", "GENERAL_IMAGE_GENERATING",
                            "WEEK_APPROVED"} # {}

C3_Witness ==
    /\ session.workflow_state = "IMAGE_GENERATED"
    /\ since_mode = {"WEEK_APPROVED"}

\* C4: brand setup gate. While brand.is_complete() is false the workflow
\* state is START or BRAND_SETUP.
C4_BrandGate ==
    ~is_complete(session.brand)
        => session.workflow_state \in {"START", "BRAND_SETUP"}

\* C5: post reset on restart. A step from MODE_SELECTION into
\* POST_IDEA_SOURCE, IDEA_REQUEST or GENERAL_IMAGE_PROMPT leaves every
\* PostContext field at its default.
C5_PostResetOnRestart ==
    [][(/\ session.workflow_state = "MODE_SELECTION"
        /\ session'.workflow_state \in
               {"POST_IDEA_SOURCE", "IDEA_REQUEST", "GENERAL_IMAGE_PROMPT"})
          => session'.post = PostContext]_vars

C10_CampaignBounds ==
    /\ session.campaign.total_weeks <= 8
    /\ session.campaign.posts_per_week <= 5

\* C11: in every reachable session state the week pointer is within the
\* campaign: campaign.current_week <= campaign.total_weeks, also after the
\* pointer is advanced, total_weeks is changed or the campaign is restored
\* by from_dict.
C11_WeekWithinCampaign ==
    session.campaign.current_week <= session.campaign.total_weeks

\* C12: dual write. A save_generated_content(type, content, project_id)
\* with a project id that returned "success" has appended its entry to the
\* global log and to projects[project_id].content_history; it does not
\* report success when only the global log was written.
C12_DualWrite ==
    (/\ reply.op = "save_generated_content"
     /\ Truthy(reply.project_id)
     /\ reply.result.status = "success")
        => LET entry == store.generated_content[Len(store.generated_content)]
           IN  /\ entry.project_id = reply.project_id
               /\ HasProject(store, reply.project_id)
               /\ LET history == store.projects[ProjectIndex(store,
                                      reply.project_id)].content_history
                   IN  /\ history # << >>
                       /\ history[Len(history)] = entry

\* C13: get_recent_content(limit) returns, for every limit >= 0, exactly
\* min(limit, n) entries of a log of n: its last entries, newest first;
\* never more than limit, also through recall_from_memory("content", key)
\* with a numeric key.
C13_BoundedRecent ==
    LET log == store.generated_content
        n == Len(log)
        Recent(limit, data) ==
            LET k == IF limit < n THEN limit ELSE n
            IN  /\ Len(data) = k
                /\ \A i \in 1..k : data[i] = log[n + 1 - i]
    IN  /\ reply.op = "get_recent_content" => Recent(reply.limit, reply.data)
        /\ (reply.op = "recall_from_memory" /\ isdigit(reply.key))
               => Recent(int(reply.key), reply.result.data)

\* C14: save_project is an upsert by id. After it the store holds exactly
\* one record of that id, with the name and brand_info given and a fresh
\* updated_at; saving an id that exists keeps the record's content_history
\* and its created_at.
C14_Upsert ==
    [][reply'.op = "save_project" =>
          LET id == reply'.project_id
              after == store'.projects[ProjectIndex(store', id)]
          IN  /\ Cardinality({i \in DOMAIN store'.projects :
                                 store'.projects[i].id = id}) = 1
              /\ after.name = reply'.name
              /\ after.brand_info = reply'.brand_info
              /\ after.updated_at = isoformat(now')
              /\ HasProject(store, id) =>
                     LET before == store.projects[ProjectIndex(store, id)]
                     IN  /\ after.content_history = before.content_history
                         /\ after.created_at = before.created_at]_vars

\* C15: at most one turn of a session is in flight. A second /chat,
\* /chat/stream or WebSocket message of a session does not start its
\* runner.run_async until the previous turn of that session has finished.
C15_OneTurnInFlight ==
    \A r, q \in Requests :
        (/\ r # q
         /\ web.handlers[r].pc = "running"
         /\ web.handlers[q].pc = "running")
            => SessionKey(web.handlers[r]) # SessionKey(web.handlers[q])

\* C16: when save_generated_content calls on one store interleave, every
\* entry is appended exactly once and the content_id a call returns is the
\* index of that call's own entry, so the calls return distinct ids.
C16_OwnContentId ==
    \A t \in Threads :
        threads[t].pc = "done" =>
            LET log == heap[threads[t].store].generated_content
            IN  /\ Cardinality({i \in DOMAIN log : log[i].content = t}) = 1
                /\ log[threads[t].content_id + 1].content = t
                /\ \A u \in Threads \ {t} :
                       (/\ threads[u].pc = "done"
                        /\ threads[u].store = threads[t].store)
                           => threads[u].content_id # threads[t].content_id

\* C17: get_memory_store() returns the same instance to every caller under
\* any interleaving of concurrent first calls; no second store is created.
C17_OneStore ==
    /\ Cardinality({t \in Threads : heap[t] # PyNone}) <= 1
    /\ \A t, u \in Threads :
           (threads[t].store # None /\ threads[u].store # None)
               => threads[t].store = threads[u].store

\* C18: a video generation is time-bounded. The polling loops of
\* animate_image and generate_video_from_text make at most 30 polls (a
\* budget of 300 seconds, 10 seconds apart) and then end; when the remote
\* operation never completes the call returns status "timeout", which is
\* neither "success" nor "error".
C18_TimeBounded ==
    /\ video.polls * poll_interval <= max_wait_time
    /\ video.pc = "loop" => video.polls * poll_interval < max_wait_time
    /\ (video.pc = "returned" /\ video.failure = "none" /\ ~video.done)
           => (/\ video.status = "timeout"
               /\ video.status \notin {"success", "error"}
               /\ video.polls = max_wait_time \div poll_interval)

\* generate_video_from_text gave up on an operation that was never done
C18_Witness ==
    /\ video.tool = "generate_video_from_text"
    /\ video.pc = "returned"
    /\ video.status = "timeout"
    /\ video.polls = 30
    /\ ~video.done

\* C19: precondition recovery. From IDEA_SELECTED or POST_BRIEF_GENERATION
\* with an empty brand name, BRAND_SETUP is reachable through transitions
\* that VALID_TRANSITIONS declares.
C19_BrandSetupReachable ==
    (/\ session.workflow_state \in {"IDEA_SELECTED", "POST_BRIEF_GENERATION"}
     /\ ~is_complete(session.brand))
        => "BRAND_SETUP" \in ReachableFrom[session.workflow_state]

C21_ResetIdempotent ==
    LET post == session.post
        campaign == session.campaign
    IN  /\ PostReset(PostReset(post)) = PostReset(post)
        /\ PostReset(post) = PostContext
        /\ \A f \in DOMAIN PostContext \ {"hashtags"} :
               PostReset(post)[f] = None
        /\ PostReset(post).hashtags = << >>
        /\ CampaignReset(CampaignReset(campaign)) = CampaignReset(campaign)
        /\ CampaignReset(campaign) =
               [month |-> None, posts_per_week |-> 2, total_weeks |-> 4,
                current_week |-> 1, completed_weeks |-> << >>,
                posts_generated |-> << >>]
        /\ CampaignReset(campaign) = CampaignContext

\* the finished post and the running campaign of the session were reset
C21_Witness ==
    /\ session.brand.name = "Acme"
    /\ session.post = PostContext
    /\ session.campaign = CampaignContext

\* C25: from every WorkflowState, MODE_SELECTION is reachable by a finite
\* sequence of declared transitions: no declared path traps a session in a
\* part of the graph it cannot leave.
C25_ModeSelectionReachable ==
    "MODE_SELECTION" \in ReachableFrom[session.workflow_state]

\* the session is in a state from which MODE_SELECTION is more than one
\* declared transition away
C25_Witness ==
    /\ session.workflow_state = "CAROUSEL_SETUP"
    /\ ~is_valid_transition(session.workflow_state, "MODE_SELECTION")
    /\ "MODE_SELECTION" \in ReachableFrom[session.workflow_state]

\* C26: no declared transition leads into ERROR. Along every sequence of
\* declared transitions from START the session never enters ERROR, and so
\* never takes the edge ERROR -> START: once it has left START it does not
\* return to START.
C26_NoErrorNoRestart ==
    /\ [](session.workflow_state # "ERROR")
    /\ [](\A s \in WorkflowState : ~is_valid_transition(s, "ERROR"))
    /\ [][session.workflow_state # "START"
             => session'.workflow_state # "START"]_vars

\* the session went through a whole post, from START to COMPLETE
C26_Witness ==
    /\ session.workflow_state = "COMPLETE"
    /\ requested = "COMPLETE"
    /\ "BRIEF_APPROVED" \in since_mode

\* C27: animate_image and generate_video_from_text return "timeout" only
\* when the operation was still not done at their last poll: a poll that
\* finds it done, the poll that uses up the budget included, is followed by
\* the result and a status of success or error.
C27_TimeoutOnlyWhenNotDone ==
    /\ (video.pc = "returned" /\ video.status = "timeout") => ~video.done
    /\ (video.pc = "returned" /\ video.done /\ video.failure = "none")
           => video.status \in {"success", "error"}

\* C24: unknown intents are inert. For every BrandContext and every intent
\* that is not one of the six values of USER_IMAGE_INTENTS,
\* get_user_images_by_intent(intent) returns an empty list; for an intent of
\* the vocabulary it returns exactly the user images whose usage_intent is
\* that intent.
C24_UnknownIntentInert ==
    images_out.called =>
        LET WithIntent(img) ==
                /\ "usage_intent" \in DOMAIN img.f
                /\ img.f.usage_intent = images_out.intent
        IN  IF images_out.intent \in Range(USER_IMAGE_INTENTS)
                THEN images_out.by_intent =
                         SelectSeq(session.brand.user_images, WithIntent)
                ELSE images_out.by_intent = << >>

\* C22: a session exclusively owns its sub-contexts. For two distinct
\* sessions, created with defaults or as s2 = from_dict(s1.to_dict()),
\* every mutation of one session's brand, post or campaign, appending to
\* its list fields included, leaves every field of the other unchanged.
C22_ExclusiveOwnership ==
    [][\A s \in DOMAIN pair.refs, o \in DOMAIN pair.refs :
          (s # o /\ pair'.op[1] = "append" /\ pair'.op[2] = s)
              => ListsOf(pair', o) = ListsOf(pair, o)]_vars

\* C23: get_context_summary never raises: after any sequence of
\* save_project, save_profile, save_generated_content, set_context and
\* clear it returns a string, and on an empty store, initially and after
\* clear, that string is "No previous context.".
C23_SummaryNeverRaises ==
    /\ [](LET r == get_context_summary(store)
          IN  /\ r.raised = "none"
              /\ r.value \in STRING
              /\ store = MemoryStore => r.value = "No previous context."
              /\ reply.op = "get_context_summary" => reply.result = r)
    /\ [][reply'.op = "clear" =>
              get_context_summary(store').value = "No previous context."]_vars

C23_Witness ==
    /\ reply.op = "get_context_summary"
    /\ reply.result.raised = "none"
    /\ reply.result.value =
           "Active projects: 2 | Last project: Bolt | Analyzed profiles: 1"
           \o " | Generated items: 1 | Last generated: caption"
           \o " | Current brand: Acme | Working on: Acme"

\* C30: after any sequence of save_project, save_generated_content and
\* clear, every entry of a project's content_history is also in the global
\* generated_content log and carries that project's id: the history of a
\* project is never ahead of the global log.
C30_HistoryWithinLog ==
    \A i \in DOMAIN store.projects :
        LET project == store.projects[i]
            history == project.content_history
            OfProject(entry) == entry.project_id = project.id
        IN  /\ \A j \in DOMAIN history :
                   /\ history[j].project_id = project.id
                   /\ \E k \in DOMAIN store.generated_content :
                          store.generated_content[k] = history[j]
            /\ Len(history) <=
                   Len(SelectSeq(store.generated_content, OfProject))

C30_Witness ==
    /\ reply.op = "save_generated_content"
    /\ Len(store.generated_content) = 2
    /\ \E i \in DOMAIN store.projects :
           /\ Len(store.projects[i].content_history) = 1
           /\ store.projects[i].content_history[1] = store.generated_content[2]
           /\ store.generated_content[1].project_id = store.projects[i].id

\* C28: get_or_create_project creates at most one project per name,
\* compared without case: a later call for the name returns that project
\* with is_new False and leaves the projects unchanged, also when the
\* calls of concurrent turns interleave.
C28_OneProjectPerName ==
    /\ \A i, j \in DOMAIN store.projects :
           lower(store.projects[i].name) = lower(store.projects[j].name)
               => i = j
    /\ \A t \in Threads :
           (threads[t].pc = "returned" /\ ~threads[t].result.is_new)
               => /\ threads[t].result.project \in Range(store.projects)
                  /\ lower(threads[t].result.project.name) =
                         lower(threads[t].project_name)

\* C29: save_to_memory and recall_from_memory return a dict with a
\* "status" for every category, key and value, a JSON array and malformed
\* JSON included, and never raise; an unknown category gives the status
\* "error" and leaves the store unchanged, and recall_from_memory never
\* changes the store.
C29_MemoryToolsTotal ==
    /\ [](reply.op \in {"save_to_memory", "recall_from_memory"}
            => /\ reply.raised = "none"
               /\ "status" \in DOMAIN reply.result)
    /\ [][(/\ reply'.op \in {"save_to_memory", "recall_from_memory"}
           /\ reply'.category \notin
                  {"project", "profile", "content", "context", "summary"})
              => reply'.result.status = "error" /\ store' = store]_vars
    /\ [][reply'.op = "recall_from_memory" => store' = store]_vars

\* C7: serialization round trip. from_dict(to_dict(s)) equals s in every
\* field, for every populated session s.
C7_RoundTrip ==
    (restored # NotCalled /\ corruption = NoCorruption)
        => restored = [raised |-> "none", value |-> session]

\* C8: from_dict of a corrupt persisted record never returns a session.
C8_CorruptRejected ==
    (restored # NotCalled /\ corruption # NoCorruption)
        => restored.raised # "none"

InList(e, list) == \E i \in DOMAIN list : list[i] = e

\* C9: intent filter completeness. Every entry of user_images is in exactly
\* one of get_images_for_generation() and get_style_reference_images().
C9_FilterComplete ==
    images_out.called =>
        \A i \in DOMAIN session.brand.user_images :
            InList(session.brand.user_images[i], images_out.for_generation)
                # InList(session.brand.user_images[i],
                         images_out.style_reference)

====
